---- MODULE Spec2Model ----
(***************************************************************************)
(* blackcert: a certstream listener that matches the domains of newly      *)
(* issued certificates against configured keywords, posts every match to   *)
(* a Slack webhook and appends it to a local results file.                 *)
(*                                                                         *)
(* Python strings are modelled as sequences of one-character strings, so   *)
(* that str.find, str.split and str.strip are computed character by        *)
(* character.  A settings value is tagged: a plain string is               *)
(* [isList |-> FALSE, items |-> <<s>>], a list of strings is               *)
(* [isList |-> TRUE, items |-> <<s1, ..., sn>>].                           *)
(***************************************************************************)
EXTENDS Integers, Sequences, FiniteSets, TLC

\* ------------------------------------------------------------------ bounds

\* events the stream delivers in one run
MaxEvents == 2
\* entries of all_domains in one event
MaxDomains == 2
\* sections of an INI file (parse_configs specification)
MaxSections == 2
\* characters of an INI value (parse_configs specification)
MaxRawLen == 3
\* characters of a domain / of a keyword (matcher specification)
MaxDomainLen == 4
MaxKeywordLen == 2

\* ------------------------------------------------------- program constants

\* the only status sendslack accepts
HTTP_OK == 200
\* what str.find returns when the substring is absent
NotFound == -1
\* the number of arguments given to str.format in the missing-config message
MissingMsgArgs == 1

\* the replacement fields {0} and {1} of the missing-config message
MissingMsgFields == {0, 1}
\* the replacement fields and arguments of the "using config" message
UsingMsgFields == {0, 1}
UsingMsgArgs == 2
\* the name the except clause of write_results looks up
ExceptClauseName == "Exection"
\* names a Python module can resolve without defining them
BuiltinNames == {"Exception", "BaseException", "OSError", "IOError", "ValueError"}

\* ----------------------------------------------------------------- strings

Strs(alphabet, n) == UNION {[1..m -> alphabet] : m \in 0..n}

IsSpace(c) == c \in {" ", "\t", "\n", "\r"}

\* str.lower on the characters of the model
Lower(c) == IF c = "A" THEN "a" ELSE IF c = "B" THEN "b" ELSE c

\* D[i:i+len(K)] == K, i zero-based
MatchesAt(D, K, i) == /\ i + Len(K) <= Len(D)
                      /\ \A j \in 1..Len(K) : D[i + j] = K[j]

RECURSIVE FindFrom(_, _, _)
FindFrom(D, K, i) == IF i + Len(K) > Len(D) THEN NotFound
                     ELSE IF MatchesAt(D, K, i) THEN i
                     ELSE FindFrom(D, K, i + 1)

\* mutant: the keyword is looked for at the start of the domain only
find_anchored(D, K) == IF MatchesAt(D, K, 0) THEN 0 ELSE NotFound

\* mutant: the search ignores case
find_nocase(D, K) == FindFrom([i \in 1..Len(D) |-> Lower(D[i])],
                              [i \in 1..Len(K) |-> Lower(K[i])], 0)

\* str.find: the lowest zero-based index at which K occurs in D, or -1
find(D, K) == FindFrom(D, K, 0)

\* str.strip: drop leading, then trailing whitespace
RECURSIVE lstrip(_)
lstrip(s) == IF s # <<>> /\ IsSpace(Head(s)) THEN lstrip(Tail(s)) ELSE s

RECURSIVE rstrip(_)
rstrip(s) == IF s # <<>> /\ IsSpace(s[Len(s)])
             THEN rstrip(SubSeq(s, 1, Len(s) - 1)) ELSE s

strip(s) == rstrip(lstrip(s))

\* str.split(','): the pieces between the commas, empty pieces kept
RECURSIVE SplitFrom(_, _)
SplitFrom(s, cur) == IF s = <<>> THEN <<cur>>
                     ELSE IF Head(s) = "," THEN <<cur>> \o SplitFrom(Tail(s), <<>>)
                     ELSE SplitFrom(Tail(s), Append(cur, Head(s)))

split(s) == SplitFrom(s, <<>>)

StrVal(s) == [isList |-> FALSE, items |-> <<s>>]
ListVal(l) == [isList |-> TRUE, items |-> l]

\* mutant: the items of the keyword list keep their surrounding whitespace
perform_lookup_nostrip(config_key, config_value) ==
    IF config_key = "keywords" THEN ListVal(split(config_value))
    ELSE StrVal(config_value)

perform_lookup(config_key, config_value) ==
    IF config_key = "keywords"
    THEN LET pieces == split(config_value)
         IN  ListVal([i \in 1..Len(pieces) |-> strip(pieces[i])])
    ELSE StrVal(config_value)

\* ------------------------------------------------------------ parse_configs

\* An INI file as configparser presents it: config.sections() in file order,
\* each section the sequence of its options in the order iteration yields them;
\* an option is [key, value, raises], raises meaning that config.get raises for
\* it (an interpolation error).
SectionOptions(ini) ==
    LET RECURSIVE Flat(_)
        Flat(i) == IF i > Len(ini) THEN <<>> ELSE ini[i] \o Flat(i + 1)
    IN  Flat(1)

\* the two loops of parse_configs over the options in order: the settings so far,
\* or the exit taken at the first option whose processing raises
RECURSIVE ParseFrom(_, _, _)
ParseFrom(opts, i, settings) ==
    IF i > Len(opts) THEN [exit |-> FALSE, settings |-> settings]
    ELSE IF opts[i].raises THEN [exit |-> TRUE, settings |-> settings]
    ELSE ParseFrom(opts, i + 1,
                   (opts[i].key :> perform_lookup(opts[i].key, opts[i].value))
                       @@ settings)

parse_configs(ini) == ParseFrom(SectionOptions(ini), 1, <<>>)

\* str.format raises IndexError when a replacement field has no argument
FormatRaises(fields, nargs) == \E f \in fields : f >= nargs

\* ------------------------------------------------------------------- state

VARIABLES
    pc,            \* where the process is: start, parse_configs, setup_logging,
                   \* version_check, subscribe, listen, callback, loop, sendslack,
                   \* write_results, raised, exited
    ARG_VERSION,   \* args.version
    configIsFile,  \* Path(config).is_file()
    ini,           \* the INI file at the config path, as configparser presents it
    config,        \* the settings mapping parse_configs returned
    exitStatus,    \* the process exit status, -1 while it runs
    exc,           \* the exception in flight or that ended the process, or "none"
    printed,       \* the messages print() has written
    logged,        \* the records the blackcert logger has emitted
    subscribed,    \* certstream.listen_for_events has been called
    events,        \* events delivered to callback so far
    message,       \* the event callback is handling
    di, ki,        \* positions of the domain and keyword loops of callback
    cbResult,      \* how the last callback ended: none, returned, raised
    lastCheck,     \* the last domain.find(keyword) evaluated and its outcome
    lastResp,      \* the webhook's answer to the last POST of this event
    posts,         \* requests.post calls
    okPosts,       \* sendslack calls that returned normally
    writes,        \* write_results calls
    appended,      \* records appended to the output file
    errorsLogged,  \* log.error calls of write_results
    evTrace        \* the sendslack and write_results calls of the current event

vars == <<pc, ARG_VERSION, configIsFile, ini, config, exitStatus, exc, printed,
          logged, subscribed, events, message, di, ki, cbResult, lastCheck,
          lastResp, posts, okPosts, writes, appended, errorsLogged, evTrace>>

inputVars == <<ARG_VERSION, configIsFile, ini>>
startupVars == <<config, printed, logged, subscribed>>
loopVars == <<di, ki, lastCheck>>
countVars == <<posts, okPosts, writes, appended, errorsLogged>>

\* ------------------------------------------------------------------ inputs

\* keywords lines of the config files the program is started with
MainKeywordRaws == { <<"a", ",", "b">>,
                     <<"a", "b", " ", ",", " ", "b">>,
                     <<>> }

\* what is wrong with the config file, if anything
IniVariants == {"full", "no_hook", "no_log_path", "no_keywords", "no_url", "bad_value"}

Opt(key, value, raises) == [key |-> key, value |-> value, raises |-> raises]

\* a two-section config file with the given keywords line
MainIni(kw, variant) ==
    LET slack == (IF variant = "no_hook" THEN <<>>
                  ELSE <<Opt("hook", <<"h">>, variant = "bad_value")>>)
                 \o (IF variant = "no_keywords" THEN <<>>
                     ELSE <<Opt("keywords", kw, FALSE)>>)
        base  == (IF variant = "no_log_path" THEN <<>>
                  ELSE <<Opt("log_path", <<"l">>, FALSE)>>)
                 \o (IF variant = "no_url" THEN <<>>
                     ELSE <<Opt("certstream_url", <<"u">>, FALSE)>>)
    IN  <<slack, base>>

\* domain names certificates carry
Domains == { <<"a", "b">>, <<"B">> }

MessageTypes == {"heartbeat", "certificate_update", "other"}

Messages == [message_type : MessageTypes,
             all_domains  : Strs(Domains, MaxDomains)]

NoMessage == [message_type |-> "none", all_domains |-> <<>>]

\* status codes the webhook answers with
Statuses == {HTTP_OK, 204, 404, 500}

\* what requests.post yields: a response, or an exception when none arrives
Responses == {[kind |-> "response", status |-> s] : s \in Statuses}
                 \cup {[kind |-> "no_response", status |-> 0]}

NoResp == [kind |-> "none", status |-> 0]
NoCheck == [checked |-> FALSE, d |-> <<>>, k |-> <<>>, hit |-> FALSE]

\* ------------------------------------------------------------------- Init

InitRest ==
    /\ exitStatus = -1
    /\ exc = "none"
    /\ printed = {}
    /\ logged = {}
    /\ subscribed = FALSE
    /\ cbResult = "none"
    /\ lastCheck = NoCheck
    /\ lastResp = NoResp
    /\ posts = 0
    /\ okPosts = 0
    /\ writes = 0
    /\ appended = 0
    /\ errorsLogged = 0
    /\ evTrace = <<>>

Init ==
    /\ pc = "start"
    /\ ARG_VERSION \in BOOLEAN
    /\ configIsFile \in BOOLEAN
    /\ \E kw \in MainKeywordRaws, v \in IniVariants : ini = MainIni(kw, v)
    /\ config = <<>>
    /\ events = 0
    /\ message = NoMessage
    /\ di = 0
    /\ ki = 0
    /\ InitRest

\* ----------------------------------------------------------------- startup

\* the process ends by an uncaught exception: traceback, exit status 1
Crash(e) ==
    /\ exc' = e
    /\ exitStatus' = 1
    /\ pc' = "exited"

\* sys.exit(status)
SysExit(status) ==
    /\ exc' = "SystemExit"
    /\ exitStatus' = status
    /\ pc' = "exited"

\* the banner and the check that the config path is a file
main_check_config ==
    /\ pc = "start"
    /\ IF configIsFile
       THEN IF FormatRaises(UsingMsgFields, UsingMsgArgs)
            THEN /\ Crash("IndexError")
                 /\ printed' = printed \cup {"banner"}
            ELSE /\ printed' = printed \cup {"banner", "using_config"}
                 /\ pc' = "parse_configs"
                 /\ UNCHANGED <<exc, exitStatus>>
       ELSE IF FormatRaises(MissingMsgFields, MissingMsgArgs)
            THEN /\ Crash("IndexError")
                 /\ printed' = printed \cup {"banner"}
            ELSE /\ printed' = printed \cup {"banner", "missing_config"}
                 /\ SysExit(1)
    /\ UNCHANGED <<inputVars, config, logged, subscribed, events, message,
                   loopVars, cbResult, lastResp, countVars, evTrace>>

\* config = parse_configs(configpath)
main_parse_configs ==
    /\ pc = "parse_configs"
    /\ LET r == parse_configs(ini)
       IN  IF r.exit
           THEN /\ printed' = printed \cup {"config_error"}
                /\ SysExit(1)
                /\ UNCHANGED config
           ELSE /\ config' = r.settings
                /\ pc' = "setup_logging"
                /\ UNCHANGED <<printed, exc, exitStatus>>
    /\ UNCHANGED <<inputVars, logged, subscribed, events, message,
                   loopVars, cbResult, lastResp, countVars, evTrace>>

\* log = setup_logging(config['log_path'], 'INFO')
main_setup_logging ==
    /\ pc = "setup_logging"
    /\ IF "log_path" \notin DOMAIN config
       THEN Crash("KeyError")
       ELSE \E opened \in BOOLEAN :
                IF opened
                THEN /\ pc' = "version_check"
                     /\ UNCHANGED <<exc, exitStatus>>
                ELSE Crash("OSError")
    /\ UNCHANGED <<inputVars, startupVars, events, message,
                   loopVars, cbResult, lastResp, countVars, evTrace>>

\* the version flag, then the "alerting to keywords" record
main_version ==
    /\ pc = "version_check"
    /\ IF ARG_VERSION
       THEN /\ logged' = logged \cup {"version"}
            /\ SysExit(0)
       ELSE IF "keywords" \notin DOMAIN config
            THEN /\ Crash("KeyError")
                 /\ UNCHANGED logged
            ELSE /\ logged' = logged \cup {"alerting"}
                 /\ pc' = "subscribe"
                 /\ UNCHANGED <<exc, exitStatus>>
    /\ UNCHANGED <<inputVars, config, printed, subscribed, events, message,
                   loopVars, cbResult, lastResp, countVars, evTrace>>

\* certstream.listen_for_events(callback, url=config['certstream_url'])
main_listen ==
    /\ pc = "subscribe"
    /\ IF "certstream_url" \notin DOMAIN config
       THEN /\ Crash("KeyError")
            /\ UNCHANGED subscribed
       ELSE /\ subscribed' = TRUE
            /\ pc' = "listen"
            /\ UNCHANGED <<exc, exitStatus>>
    /\ UNCHANGED <<inputVars, config, printed, logged, events, message,
                   loopVars, cbResult, lastResp, countVars, evTrace>>

\* ---------------------------------------------------------------- callback

Keywords == config["keywords"].items

\* the stream client hands the next event to callback
certstream_deliver ==
    /\ pc = "listen"
    /\ events < MaxEvents
    /\ \E m \in Messages : message' = m
    /\ events' = events + 1
    /\ pc' = "callback"
    /\ exc' = "none"
    /\ cbResult' = "none"
    /\ lastResp' = NoResp
    /\ lastCheck' = NoCheck
    /\ evTrace' = <<>>
    /\ di' = 0
    /\ ki' = 0
    /\ UNCHANGED <<inputVars, startupVars, exitStatus, countVars>>

\* mutant: every event that is not of another type is scanned for matches
Dispatch_scan_heartbeat(m) ==
    IF m.message_type \in {"heartbeat", "certificate_update"} THEN "scan" ELSE "return"

\* the message_type tests of callback
Dispatch(m) ==
    IF m.message_type = "heartbeat" THEN "return"
    ELSE IF m.message_type = "certificate_update" THEN "scan"
    ELSE "return"

\* callback up to the start of its loops
callback_entry ==
    /\ pc = "callback"
    /\ IF "keywords" \notin DOMAIN config
       THEN /\ exc' = "KeyError"
            /\ pc' = "raised"
            /\ cbResult' = "raised"
            /\ UNCHANGED <<di, ki>>
       ELSE IF Dispatch(message) = "scan"
            THEN /\ pc' = "loop"
                 /\ di' = 1
                 /\ ki' = 1
                 /\ UNCHANGED <<exc, cbResult>>
            ELSE /\ pc' = "listen"
                 /\ cbResult' = "returned"
                 /\ UNCHANGED <<exc, di, ki>>
    /\ UNCHANGED <<inputVars, startupVars, exitStatus, events, message,
                   lastCheck, lastResp, countVars, evTrace>>

\* one turn of "for domain in all_domains: for keyword in keywords: if find"
callback_loop ==
    /\ pc = "loop"
    /\ IF di > Len(message.all_domains)
       THEN /\ pc' = "listen"
            /\ cbResult' = "returned"
            /\ UNCHANGED <<di, ki, lastCheck>>
       ELSE IF ki > Len(Keywords)
            THEN /\ di' = di + 1
                 /\ ki' = 1
                 /\ UNCHANGED <<pc, cbResult, lastCheck>>
            ELSE LET domain  == message.all_domains[di]
                     keyword == Keywords[ki]
                     hit     == find(domain, keyword) # NotFound
                 IN  /\ lastCheck' = [checked |-> TRUE, d |-> domain,
                                      k |-> keyword, hit |-> hit]
                     /\ IF hit
                        THEN /\ pc' = "sendslack"
                             /\ UNCHANGED <<di, ki, cbResult>>
                        ELSE /\ ki' = ki + 1
                             /\ UNCHANGED <<pc, di, cbResult>>
    /\ UNCHANGED <<inputVars, startupVars, exitStatus, exc, events, message,
                   lastResp, countVars, evTrace>>

\* mutant: only server errors are raised
RaisesForStatus_5xx(status) == status >= 500

\* mutant: every 2xx status is accepted
RaisesForStatus_2xx(status) == status \notin 200..299

\* if response.status_code != 200: raise ValueError
RaisesForStatus(status) == status # HTTP_OK

\* sendslack(config['hook'], domain, result)
sendslack ==
    /\ pc = "sendslack"
    /\ IF "hook" \notin DOMAIN config
       THEN /\ exc' = "KeyError"
            /\ pc' = "raised"
            /\ cbResult' = "raised"
            /\ UNCHANGED <<lastResp, posts, okPosts, evTrace>>
       ELSE \E r \in Responses :
                /\ lastResp' = r
                /\ posts' = posts + 1
                /\ evTrace' = Append(evTrace, [op |-> "post", d |-> di, k |-> ki])
                /\ IF r.kind = "no_response"
                   THEN /\ exc' = "ConnectionError"
                        /\ pc' = "raised"
                        /\ cbResult' = "raised"
                        /\ UNCHANGED okPosts
                   ELSE IF RaisesForStatus(r.status)
                        THEN /\ exc' = "ValueError"
                             /\ pc' = "raised"
                             /\ cbResult' = "raised"
                             /\ UNCHANGED okPosts
                        ELSE /\ okPosts' = okPosts + 1
                             /\ pc' = "write_results"
                             /\ UNCHANGED <<exc, cbResult>>
    /\ UNCHANGED <<inputVars, startupVars, exitStatus, events, message,
                   loopVars, writes, appended, errorsLogged>>

\* mutant: the keyword loop is left after the first match of a domain
AfterWrite_break(k, nk) == nk + 1

\* the keyword loop goes on with the next keyword
AfterWrite(k, nk) == k + 1

\* what the except clause of write_results does with a failed append: looking
\* up the name it lists comes first
ExceptClause == IF ExceptClauseName \in BuiltinNames THEN "caught" ELSE "NameError"

\* write_results(result)
write_results ==
    /\ pc = "write_results"
    /\ writes' = writes + 1
    /\ evTrace' = Append(evTrace, [op |-> "write", d |-> di, k |-> ki])
    /\ \E written \in BOOLEAN :
           IF written
           THEN /\ appended' = appended + 1
                /\ pc' = "loop"
                /\ ki' = AfterWrite(ki, Len(Keywords))
                /\ UNCHANGED <<exc, cbResult, errorsLogged>>
           ELSE IF ExceptClause = "caught"
                THEN /\ errorsLogged' = errorsLogged + 1
                     /\ pc' = "loop"
                     /\ ki' = AfterWrite(ki, Len(Keywords))
                     /\ UNCHANGED <<exc, cbResult, appended>>
                ELSE /\ exc' = ExceptClause
                     /\ pc' = "raised"
                     /\ cbResult' = "raised"
                     /\ UNCHANGED <<ki, appended, errorsLogged>>
    /\ UNCHANGED <<inputVars, startupVars, exitStatus, events, message,
                   di, lastCheck, lastResp, posts, okPosts>>

\* an exception has left callback: the stream client either lets it end the
\* process or reports it and goes on with the next event
certstream_after_raise ==
    /\ pc = "raised"
    /\ \E swallowed \in BOOLEAN :
           IF swallowed
           THEN /\ pc' = "listen"
                /\ UNCHANGED exitStatus
           ELSE /\ pc' = "exited"
                /\ exitStatus' = 1
    /\ UNCHANGED <<inputVars, startupVars, exc, events, message, loopVars,
                   cbResult, lastResp, countVars, evTrace>>

\* ----------------------------------------------------------- specifications

Next ==
    \/ main_check_config
    \/ main_parse_configs
    \/ main_setup_logging
    \/ main_version
    \/ main_listen
    \/ certstream_deliver
    \/ callback_entry
    \/ callback_loop
    \/ sendslack
    \/ write_results
    \/ certstream_after_raise

\* the whole program, started with one of the config files of MainIni
Spec == Init /\ [][Next]_vars

\* parse_configs alone, on every small INI file: up to MaxSections sections,
\* each with at most one option per key, the values being a string of up to
\* MaxRawLen characters, that string with one more character, or one that
\* raises.  configparser hands out values without surrounding whitespace.
RawChars == {"a", ",", " "}
ParseKeys == {"keywords", "hook"}

RawValues == {s \in Strs(RawChars, MaxRawLen) :
                 s = <<>> \/ (~IsSpace(s[1]) /\ ~IsSpace(s[Len(s)]))}

Longer(raw) == Append(raw, "a")

ParseOptions(raw) ==
    {Opt(k, raw, FALSE) : k \in ParseKeys}
        \cup {Opt(k, Longer(raw), FALSE) : k \in ParseKeys}
        \cup {Opt(k, raw, TRUE) : k \in ParseKeys}

ParseSections(raw) ==
    {s \in Strs(ParseOptions(raw), Cardinality(ParseKeys)) :
        \A i, j \in 1..Len(s) : s[i].key = s[j].key => i = j}

InitParse ==
    /\ pc = "parse_configs"
    /\ ARG_VERSION = FALSE
    /\ configIsFile = TRUE
    /\ \E raw \in RawValues :
           ini \in Strs(ParseSections(raw), MaxSections)
    /\ config = <<>>
    /\ events = 0
    /\ message = NoMessage
    /\ di = 0
    /\ ki = 0
    /\ InitRest

SpecParse == InitParse /\ [][main_parse_configs]_vars

\* the matcher alone: callback at the head of its loops with one domain of up
\* to MaxDomainLen characters and one keyword of up to MaxKeywordLen
MatchChars == {"a", "b", "A"}

InitMatch ==
    /\ pc = "loop"
    /\ ARG_VERSION = FALSE
    /\ configIsFile = TRUE
    /\ ini = <<>>
    /\ \E D \in Strs(MatchChars, MaxDomainLen), K \in Strs(MatchChars, MaxKeywordLen) :
           /\ config = ("keywords" :> ListVal(<<K>>))
           /\ message = [message_type |-> "certificate_update", all_domains |-> <<D>>]
    /\ events = 1
    /\ di = 1
    /\ ki = 1
    /\ InitRest

SpecMatch == InitMatch /\ [][callback_loop]_vars

\* ------------------------------------------------------------------ claims

Last(s) == s[Len(s)]
IsPrefix(s, t) == Len(s) <= Len(t) /\ SubSeq(t, 1, Len(s)) = s
MinOf(S) == CHOOSE x \in S : \A y \in S : x <= y
MaxOf(S) == CHOOSE x \in S : \A y \in S : x >= y

\* K occurs in D as a run of consecutive, equal characters
IsSubstring(D, K) ==
    \E i \in 0..Len(D) : \E j \in i..Len(D) : SubSeq(D, i + 1, j) = K

\* the keyword list of the running configuration
EventKeywords == IF "keywords" \in DOMAIN config THEN Keywords ELSE <<>>

\* the (domain, keyword) positions of the current event, domain-major, and those
\* among them whose keyword occurs in the domain
AllPairs ==
    LET nk == Len(EventKeywords)
    IN  [n \in 1..(Len(message.all_domains) * nk) |->
            [d |-> ((n - 1) \div nk) + 1, k |-> ((n - 1) % nk) + 1]]

IsMatch(p) == IsSubstring(message.all_domains[p.d], EventKeywords[p.k])

MatchingPairs == SelectSeq(AllPairs, IsMatch)

\* N of the current event
NumMatches == Len(MatchingPairs)

\* one notification, then one append, per matching pair, in order
ExpectedTrace ==
    [i \in 1..(2 * NumMatches) |->
        [op |-> IF i % 2 = 1 THEN "post" ELSE "write",
         d  |-> MatchingPairs[(i + 1) \div 2].d,
         k  |-> MatchingPairs[(i + 1) \div 2].k]]

NumOps(op) == Cardinality({i \in 1..Len(evTrace) : evTrace[i].op = op})

CallbackDone == cbResult \in {"returned", "raised"}

\* C1 as stated: once callback has finished with a certificate_update event
\* that has N matching (domain, keyword) pairs, it has made exactly N
\* notification attempts and exactly N file-append attempts.
C1_ExactlyN ==
    (message.message_type = "certificate_update" /\ CallbackDone)
        => (NumOps("post") = NumMatches /\ NumOps("write") = NumMatches)

\* C1 amended: a callback that returns normally from a certificate_update
\* event with N matching pairs has made exactly N notification attempts and N
\* file-append attempts; a callback ended by an exception has made at most N
\* of each, and at most one notification attempt more than append attempts.
C1_ExactlyNOnReturn ==
    (message.message_type = "certificate_update" /\ CallbackDone)
        => /\ cbResult = "returned"
                => (NumOps("post") = NumMatches /\ NumOps("write") = NumMatches)
           /\ cbResult = "raised"
                => /\ NumOps("post") <= NumMatches
                   /\ NumOps("write") <= NumOps("post")
                   /\ NumOps("post") <= NumOps("write") + 1

\* a callback returned after two notifications for one and the same domain
C1_Witness ==
    /\ message.message_type = "certificate_update"
    /\ cbResult = "returned"
    /\ NumMatches >= 2
    /\ NumOps("post") = NumMatches
    /\ MatchingPairs[1].d = MatchingPairs[2].d

\* C2: no step taken while the current event is a heartbeat changes the number
\* of notifications, of file-append attempts or of appended records, and no
\* sendslack or write_results call is made for it, whatever domains it carries.
C2_HeartbeatSilent ==
    [][message'.message_type = "heartbeat"
          => /\ posts' = posts
             /\ writes' = writes
             /\ appended' = appended
             /\ evTrace' = <<>>]_vars

\* a heartbeat whose domains match the keywords was handled after an event
\* that did produce notifications
C2_Witness ==
    /\ message.message_type = "heartbeat"
    /\ cbResult = "returned"
    /\ NumMatches > 0
    /\ posts > 0
    /\ appended > 0

\* C3: the matcher reports a match for (D, K) exactly when K is a contiguous,
\* case-sensitive substring of D, and callback goes on to notify only then.
C3_MatchIffSubstring ==
    /\ lastCheck.checked => (lastCheck.hit <=> IsSubstring(lastCheck.d, lastCheck.k))
    /\ pc = "sendslack" => (lastCheck.checked /\ lastCheck.hit)

\* a two-character keyword found inside the domain, not at its start
C3_Witness ==
    /\ pc = "sendslack"
    /\ lastCheck.hit
    /\ Len(lastCheck.k) = 2
    /\ Len(lastCheck.d) = 4
    /\ SubSeq(lastCheck.d, 1, 2) # lastCheck.k
    /\ SubSeq(lastCheck.d, 3, 4) # lastCheck.k

\* C4 as stated: a failed append is caught and logged inside write_results,
\* which returns normally: every write_results call either appended a record or
\* logged an error, and callback is never ended by write_results.
C4_WriteFailureCaught ==
    /\ writes = appended + errorsLogged
    /\ (cbResult = "raised" /\ evTrace # <<>>) => Last(evTrace).op # "write"

\* C5: a sendslack call whose POST is answered with a non-2xx status makes
\* exactly that one POST and raises; the error leaves callback, which makes no
\* file append for the match.
C5_Non2xxRaises ==
    [][(pc = "sendslack" /\ lastResp'.kind = "response"
            /\ lastResp'.status \notin 200..299)
          => /\ posts' = posts + 1
             /\ okPosts' = okPosts
             /\ writes' = writes
             /\ exc' = "ValueError"
             /\ pc' = "raised"
             /\ cbResult' = "raised"]_vars

\* the webhook answered 500 and the error has left callback
C5_Witness ==
    /\ lastResp.kind = "response"
    /\ lastResp.status = 500
    /\ exc = "ValueError"
    /\ cbResult = "raised"

\* C6 as stated: when the config path is not a file the process ends having
\* printed the missing-config message, with status 1, without a parsed
\* config, a log record or a subscription.
C6_MissingConfigReported ==
    (pc = "exited" /\ ~configIsFile)
        => /\ "missing_config" \in printed
           /\ exitStatus = 1
           /\ config = <<>>
           /\ logged = {}
           /\ ~subscribed

\* C7 as stated: a process started with the version flag never subscribes to
\* the stream and ends with the version logged and status 0.
C7_VersionExitsZero ==
    ARG_VERSION
        => /\ ~subscribed
           /\ pc = "exited" => ("version" \in logged /\ exitStatus = 0)

\* the options of the INI file and what the flat mapping is said to hold
AllKeys == UNION {{ini[i][j].key : j \in 1..Len(ini[i])} : i \in 1..Len(ini)}
AnyRaises == \E i \in 1..Len(ini) : \E j \in 1..Len(ini[i]) : ini[i][j].raises

\* the option of key k in the last section that has one
LastOpt(k) ==
    LET i == MaxOf({x \in 1..Len(ini) : \E j \in 1..Len(ini[x]) : ini[x][j].key = k})
        j == CHOOSE y \in 1..Len(ini[i]) : ini[i][y].key = k
    IN  ini[i][j]

\* p without the whitespace around its first and last non-blank characters
Trimmed(p) ==
    LET ns == {i \in 1..Len(p) : ~IsSpace(p[i])}
    IN  IF ns = {} THEN <<>> ELSE SubSeq(p, MinOf(ns), MaxOf(ns))

\* the trimmed stretches of s between its commas, in order
ExpectedList(s) ==
    LET commas == {i \in 1..Len(s) : s[i] = ","}
        n      == Cardinality(commas) + 1
        cut(j) == IF j = 0 THEN 0
                  ELSE IF j = n THEN Len(s) + 1
                  ELSE CHOOSE i \in commas : Cardinality({x \in commas : x < i}) = j - 1
    IN  [j \in 1..n |-> Trimmed(SubSeq(s, cut(j - 1) + 1, cut(j) - 1))]

ExpectedValue(k, v) ==
    IF k = "keywords" THEN ListVal(ExpectedList(v)) ELSE StrVal(v)

\* C8 as stated: the mapping parse_configs returns holds the pair of every
\* option of every section (keywords split and stripped, the others raw), and
\* a value that raises ends the process with status 1.
C8_AllPairs ==
    /\ pc = "setup_logging"
          => /\ ~AnyRaises
             /\ DOMAIN config = AllKeys
             /\ \A i \in 1..Len(ini) : \A j \in 1..Len(ini[i]) :
                    config[ini[i][j].key] = ExpectedValue(ini[i][j].key, ini[i][j].value)
    /\ pc = "exited" => (AnyRaises /\ exitStatus = 1 /\ config = <<>>)

\* C8 amended: the mapping parse_configs returns has the keys of all sections;
\* a key that several sections have holds the value of the last of them; the
\* value of keywords is the list of its comma-separated items, each stripped,
\* every other value is the raw string; a value that raises ends the process
\* with status 1 and no mapping.
C8_LastSectionWins ==
    /\ pc = "setup_logging"
          => /\ ~AnyRaises
             /\ DOMAIN config = AllKeys
             /\ \A k \in AllKeys : config[k] = ExpectedValue(k, LastOpt(k).value)
    /\ pc = "exited" => (AnyRaises /\ exitStatus = 1 /\ config = <<>>)

\* a mapping with a keyword list of several items, the blanks around them
\* gone, next to a hook whose commas and blanks were left alone
C8_Witness ==
    /\ pc = "setup_logging"
    /\ DOMAIN config = {"keywords", "hook"}
    /\ Len(config["keywords"].items) >= 2
    /\ \E i \in 1..Len(LastOpt("keywords").value) : IsSpace(LastOpt("keywords").value[i])
    /\ \A i \in 1..Len(config["keywords"].items) :
           \A j \in 1..Len(config["keywords"].items[i]) :
               ~IsSpace(config["keywords"].items[i][j])
    /\ \E i \in 1..Len(config["hook"].items[1]) : config["hook"].items[1][i] = ","
    /\ \E i \in 1..Len(config["hook"].items[1]) : IsSpace(config["hook"].items[1][i])

\* C9: the calls of one event are a prefix of "notify, then append" over the
\* matching pairs in domain-major, keyword-minor order; an append is attempted
\* only right after the POST of the same pair got status 200; a failed POST is
\* the last call of its event; appends never outnumber successful
\* notifications.
C9_NotifyThenAppend ==
    /\ IsPrefix(evTrace, ExpectedTrace)
    /\ writes <= okPosts
    /\ pc = "write_results"
          => /\ evTrace # <<>>
             /\ Last(evTrace) = [op |-> "post", d |-> di, k |-> ki]
             /\ lastResp.status = HTTP_OK
    /\ (cbResult = "raised" /\ exc \in {"ValueError", "ConnectionError"})
          => /\ evTrace # <<>>
             /\ Last(evTrace).op = "post"
             /\ pc \in {"raised", "listen", "exited"}

\* the POST of the second match failed while further pairs were still to come
C9_Witness ==
    /\ cbResult = "raised"
    /\ exc = "ValueError"
    /\ Len(evTrace) = 3
    /\ NumMatches >= 3
    /\ pc = "listen"

\* C10: after a response, sendslack has returned normally (callback went on
\* to write_results) exactly when the status was 200, and has raised
\* ValueError exactly when it was anything else.
C10_Only200Returns ==
    lastResp.kind = "response"
        => /\ lastResp.status = HTTP_OK
                <=> (pc = "write_results" \/ (evTrace # <<>> /\ Last(evTrace).op = "write"))
           /\ lastResp.status # HTTP_OK
                <=> (exc = "ValueError" /\ cbResult = "raised"
                        /\ evTrace # <<>> /\ Last(evTrace).op = "post")

\* the webhook answered 204 and sendslack raised
C10_Witness ==
    /\ lastResp.kind = "response"
    /\ lastResp.status = 204
    /\ exc = "ValueError"
    /\ cbResult = "raised"

====
